---- MODULE Spec2Model ----
(***************************************************************************)
(* F1 championship predictor: the constraint form of the GUI simulator,    *)
(* the constrained order generator, the standings accumulator with its     *)
(* caches (both variants of Total_points.py), and the two Monte-Carlo      *)
(* handlers of the GUI, simulate() and plot_graph().                       *)
(*                                                                         *)
(* Python lists are sequences (1-based here, 0-based in the source); a     *)
(* Python index i is the sequence index i + 1.                             *)
(***************************************************************************)
EXTENDS Integers, Sequences, FiniteSets, TLC

(***************************************************************************)
(* Bounds of the model.  The source fixes 20 drivers, 5 form rows per      *)
(* event, 7 + 3 remaining events and 1000 attempts; the model keeps the    *)
(* code and scales these sizes.                                            *)
(***************************************************************************)
RosterSize == 3
FormRows == 2
NumEvents == 2
MaxFilledRows == 2
RetryBudget == 2
TopK == 2

\* gui_simulator.py:19, sorted
AllDrivers == <<1, 4, 5, 6, 10, 12, 14, 16, 18, 22, 23, 27, 30, 31, 43, 44, 55, 63, 81, 87>>

drivers == SubSeq(AllDrivers, 1, RosterSize)

Events == 0 .. (NumEvents - 1)
RowIdx == 0 .. (FormRows - 1)

SetOf(seq) == {seq[i] : i \in 1 .. Len(seq)}

(***************************************************************************)
(* Text of a combobox.  The boxes are editable, so a field holds any       *)
(* string: a plain integer "4", a drop-down label "4: Lando Norris", text  *)
(* that is no number, or nothing.                                          *)
(***************************************************************************)
Num(n) == [k |-> "num", v |-> n]
Label(n) == [k |-> "label", v |-> n]
Junk == [k |-> "junk", v |-> 0]
Empty == [k |-> "empty", v |-> 0]

SET_POSITION == "Set Position"
A_ABOVE_B == "A Above B"

\* What the user enters in the form.  First box: the first roster driver typed
\* as a number, the second picked as a label, text that is no number, nothing.
\* Second box: the numbers of both drivers (1 is also position 1), text that
\* is no number, nothing.
Driver1Vals == {Num(drivers[1]), Label(drivers[2]), Junk, Empty}
SecondVals == {Num(drivers[1]), Num(drivers[2]), Junk, Empty}
BlankRow == [t |-> "", d1 |-> Empty, s |-> Empty]
RowVals == [t : {SET_POSITION, A_ABOVE_B}, d1 : Driver1Vals, s : SecondVals]

\* Python truthiness of a string
Truthy(f) == f.k # "empty"

\* int(x): a value, or ValueError
Ok(n) == [ok |-> TRUE, v |-> n]
ValueError == [ok |-> FALSE, v |-> 0]
PyInt(f) == IF f.k = "num" THEN Ok(f.v) ELSE ValueError

\* int(x.split(':')[0]) if ':' in x else int(x)
DriverNum(f) ==
    IF f.k = "label" THEN Ok(f.v)
    ELSE PyInt(f)

(***************************************************************************)
(* conflicts(existing, new_type, new_d1, new_second)                       *)
(***************************************************************************)
\* line 43
SamePosOrDriver_Mut(p, pos, dd, d1) == p = pos /\ dd = d1
SamePosOrDriver(p, pos, dd, d1) == p = pos \/ dd = d1

\* line 51
DirectReverse_Mut(dd1, dd2, d1, d2) == dd1 = d1 /\ dd2 = d2
DirectReverse(dd1, dd2, d1, d2) == dd1 = d2 /\ dd2 = d1

\* lines 56-57
AboveFirst(dd, p, d1, d2) == dd = d1 /\ p = 1

\* lines 58-59: the bare except turns every exception into True
OnException_Mut == FALSE
OnException == TRUE

\* The loops return True at the first entry that conflicts or fails to parse
\* and fall through to False otherwise.
conflicts(existing, new_type, new_d1, new_second) ==
    LET d1 == DriverNum(new_d1) IN
    IF ~d1.ok THEN OnException
    ELSE IF new_type = SET_POSITION THEN
        LET pos == PyInt(new_second) IN
        IF ~pos.ok THEN OnException
        ELSE \E i \in 1 .. Len(existing) :
                /\ existing[i].t = SET_POSITION
                /\ LET p == PyInt(existing[i].s)
                       dd == DriverNum(existing[i].d1)
                   IN IF ~p.ok \/ ~dd.ok THEN OnException
                      ELSE SamePosOrDriver(p.v, pos.v, dd.v, d1.v)
    ELSE IF new_type = A_ABOVE_B THEN
        LET d2 == DriverNum(new_second) IN
        IF ~d2.ok THEN OnException
        ELSE \E i \in 1 .. Len(existing) :
                \/ /\ existing[i].t = A_ABOVE_B
                   /\ LET dd1 == DriverNum(existing[i].d1)
                          dd2 == DriverNum(existing[i].s)
                      IN IF ~dd1.ok \/ ~dd2.ok THEN OnException
                         ELSE DirectReverse(dd1.v, dd2.v, d1.v, d2.v)
                \/ /\ existing[i].t = SET_POSITION
                   /\ LET dd == DriverNum(existing[i].d1)
                          p == PyInt(existing[i].s)
                      IN IF ~dd.ok \/ ~p.ok THEN OnException
                         ELSE AboveFirst(dd.v, p.v, d1.v, d2.v)
    ELSE FALSE

VARIABLES
    type_vars, driver1_vars, second_vars,   \* the form: [event][row]
    scenarios,                              \* accepted constraints per event
    fresh,                                  \* scenarios was rebuilt after the last edit
    gen_pc,         \* generate_order_with_constraints: "idle", "loop", "fallback", "done", "raised"
    scenario_list,  \* its argument
    top5,           \* its argument; <<>> stands for None
    attempts,       \* permutations drawn in the retry loop of this call
    order,          \* the order it returned
    path            \* where the order came from

VARIABLES
    variant,        \* which Total_points.py runs: "root", "scripts" ("none": not running)
    race_keys,      \* get_sessions(): (session_key, country_name) of the races, in order
    sprint_keys,    \* get_sessions(): the same for the sprints
    session_data,   \* what the API answers for a session's results
    api_cache,      \* url -> data, keyed here by the session key in the url
    cache_points,   \* k -> standings after k race weeks
    points_cache,   \* Python Scripts: per-session points and cumulative totals
    held,           \* the mapping object the last call handed to its caller
    aliased,        \* the keys of cache_points whose object is the held one
    ret_k,          \* the k of the last call (NoCall before the first)
    ret,            \* the mapping as it was when the call returned
    served,         \* where the last call took it from
    processed,      \* the sessions the last call passed to add_points, in order
    down            \* the sessions whose results the API cannot deliver at present

VARIABLES
    sim_pc,             \* simulate / plot_graph: "idle", "trial", "event"
    handler,            \* the handler that runs: "simulate", "plot" ("none" before the first)
    current_points,     \* the standings the GUI loaded, in the dict's order: <<[d, p], ...>>
    top_5,              \* the leading drivers of current_points
    win_counts,         \* simulate: wins per driver of top_5
    trial,              \* trials finished in this run
    event,              \* events finished in this trial
    sim_points,         \* the trial's totals per roster driver
    winner,             \* simulate: the leader the last finished trial declared (0: none yet)
    points_over_time    \* plot_graph: the trial's snapshots

formVars == <<type_vars, driver1_vars, second_vars>>
genVars == <<gen_pc, scenario_list, top5, attempts, order, path>>
pointsVars == <<variant, race_keys, sprint_keys, session_data, api_cache,
                cache_points, points_cache, held, aliased, ret_k, ret, served,
                processed, down>>
simVars == <<sim_pc, handler, current_points, top_5, win_counts, trial, event,
             sim_points, winner, points_over_time>>
vars == <<type_vars, driver1_vars, second_vars, scenarios, fresh,
          gen_pc, scenario_list, top5, attempts, order, path,
          variant, race_keys, sprint_keys, session_data, api_cache,
          cache_points, points_cache, held, aliased, ret_k, ret, served, processed, down,
          sim_pc, handler, current_points, top_5, win_counts, trial, event,
          sim_points, winner, points_over_time>>

RowAt(r, j) == [t |-> type_vars[r][j], d1 |-> driver1_vars[r][j], s |-> second_vars[r][j]]

(***************************************************************************)
(* update_scenarios(): rebuilds every event's list from the form.          *)
(***************************************************************************)
\* lines 69-71, one row j of event r given the list built so far
AcceptRow(acc, row) ==
    IF /\ row.t # ""
       /\ Truthy(row.d1)
       /\ Truthy(row.s)
       /\ ~conflicts(acc, row.t, row.d1, row.s)
    THEN Append(acc, row)
    ELSE acc

RECURSIVE RowsFrom(_, _, _)
RowsFrom_Mut(r, j, acc) ==
    IF j >= FormRows THEN acc
    ELSE LET nxt == AcceptRow(acc, RowAt(r, j)) IN
         IF nxt = acc THEN acc ELSE RowsFrom(r, j + 1, nxt)
RowsFrom(r, j, acc) ==
    IF j >= FormRows THEN acc
    ELSE RowsFrom(r, j + 1, AcceptRow(acc, RowAt(r, j)))

update_scenarios ==
    /\ scenarios' = [r \in Events |-> RowsFrom(r, 0, <<>>)]
    /\ fresh' = TRUE
    /\ UNCHANGED <<formVars, genVars, pointsVars, simVars>>

\* The user fills the three boxes of row j of event r, rows from the top.
FilledRows == Cardinality({c \in Events \X RowIdx : RowAt(c[1], c[2]) # BlankRow})

EditRowFrom(r, j, vals) ==
    /\ sim_pc = "idle"
    /\ RowAt(r, j) = BlankRow
    /\ j > 0 => RowAt(r, j - 1) # BlankRow
    /\ FilledRows < MaxFilledRows
    /\ \E row \in vals :
          /\ type_vars' = [type_vars EXCEPT ![r][j] = row.t]
          /\ driver1_vars' = [driver1_vars EXCEPT ![r][j] = row.d1]
          /\ second_vars' = [second_vars EXCEPT ![r][j] = row.s]
    /\ fresh' = FALSE
    /\ UNCHANGED <<scenarios, genVars, pointsVars, simVars>>

EditRow(r, j) == EditRowFrom(r, j, RowVals)

\* lines 24, 30-32
FormInit ==
    /\ type_vars = [r \in Events |-> [j \in RowIdx |-> ""]]
    /\ driver1_vars = [r \in Events |-> [j \in RowIdx |-> Empty]]
    /\ second_vars = [r \in Events |-> [j \in RowIdx |-> Empty]]
    /\ scenarios = [r \in Events |-> <<>>]
    /\ fresh = FALSE

\* no call of the generator yet
GenIdle ==
    /\ gen_pc = "idle"
    /\ scenario_list = <<>>
    /\ top5 = <<>>
    /\ attempts = 0
    /\ order = <<>>
    /\ path = "none"

\* a dict: the function from its keys to their values
EmptyMap == [x \in {} |-> 0]
NoCall == 0 - 1

\* Total_points is not running
PointsIdle ==
    /\ variant = "none"
    /\ race_keys = <<>>
    /\ sprint_keys = <<>>
    /\ session_data = EmptyMap
    /\ api_cache = EmptyMap
    /\ cache_points = EmptyMap
    /\ points_cache = EmptyMap
    /\ held = EmptyMap
    /\ aliased = {}
    /\ ret_k = NoCall
    /\ ret = EmptyMap
    /\ served = "none"
    /\ processed = <<>>
    /\ down = {}

\* no simulation run yet, no standings loaded
SimIdle ==
    /\ sim_pc = "idle"
    /\ handler = "none"
    /\ current_points = <<>>
    /\ top_5 = <<>>
    /\ win_counts = EmptyMap
    /\ trial = 0
    /\ event = 0
    /\ sim_points = EmptyMap
    /\ winner = 0
    /\ points_over_time = <<>>

Init == FormInit /\ GenIdle /\ PointsIdle /\ SimIdle

Next ==
    \/ \E r \in Events, j \in RowIdx : EditRow(r, j)
    \/ update_scenarios

Spec == Init /\ [][Next]_vars

(***************************************************************************)
(* generate_order_with_constraints(drivers, scenario_list, top5)           *)
(***************************************************************************)
\* random.sample(drivers, 20), random.shuffle(x): every arrangement
Shuffles(seq) ==
    {p \in [1 .. Len(seq) -> SetOf(seq)] : \A i, j \in 1 .. Len(seq) : i # j => p[i] # p[j]}

\* d in order
In(d, lst) == \E i \in 1 .. Len(lst) : lst[i] = d

\* order.index(d), 0-based
IndexOf(lst, d) == (CHOOSE i \in 1 .. Len(lst) : lst[i] = d) - 1

\* lst[pos] with Python's negative indices; IndexError outside -len .. len-1
IndexError == [ok |-> FALSE, v |-> 1]
PyIndex(lst, pos) ==
    IF 0 <= pos /\ pos < Len(lst) THEN Ok(pos + 1)
    ELSE IF pos < 0 /\ 0 - Len(lst) <= pos THEN Ok(Len(lst) + pos + 1)
    ELSE IndexError

\* lst[:n]
PySliceTo(lst, n) ==
    IF n >= 0 THEN SubSeq(lst, 1, IF n < Len(lst) THEN n ELSE Len(lst))
    ELSE SubSeq(lst, 1, IF Len(lst) + n > 0 THEN Len(lst) + n ELSE 0)

\* line 84: order[idx], order[pos] = order[pos], order[idx]  (i, j: sequence indices)
Swap_Mut(lst, i, j) == [lst EXCEPT ![j] = lst[i]]
Swap(lst, i, j) == [lst EXCEPT ![i] = lst[j], ![j] = lst[i]]

\* line 82: pos < 20, the size of the roster
OnGrid(pos) == pos < RosterSize

\* lines 79-90, one entry: the order after it, whether the candidate is still
\* valid, and the exception it raised ("" for none)
Step(o, valid, exc) == [order |-> o, valid |-> valid, exc |-> exc]

ApplyEntry(o, e) ==
    LET d1 == DriverNum(e.d1) IN
    IF ~d1.ok THEN Step(o, TRUE, "ValueError")
    ELSE IF e.t = SET_POSITION THEN
        LET p == PyInt(e.s) IN
        IF ~p.ok THEN Step(o, TRUE, "ValueError")
        ELSE LET pos == p.v - 1 IN
             IF In(d1.v, o) /\ OnGrid(pos)
             THEN LET idx == IndexOf(o, d1.v)
                      at == PyIndex(o, pos)
                  IN IF ~at.ok THEN Step(o, TRUE, "IndexError")
                     ELSE Step(Swap(o, idx + 1, at.v), TRUE, "")
             ELSE Step(o, TRUE, "")
    ELSE IF e.t = A_ABOVE_B THEN
        LET d2 == PyInt(e.s) IN
        IF ~d2.ok THEN Step(o, TRUE, "ValueError")
        ELSE IF In(d1.v, o) /\ In(d2.v, o) /\ IndexOf(o, d1.v) > IndexOf(o, d2.v)
             THEN Step(o, FALSE, "")
             ELSE Step(o, TRUE, "")
    ELSE Step(o, TRUE, "")

\* lines 91-92: the bare except catches every exception
Caught_Mut(exc) == exc = "ValueError"
Caught(exc) == TRUE

\* lines 77-92: the loop over the constraints; break at the first violated
\* 'A Above B', continue after a caught exception
RECURSIVE ApplyFrom(_, _, _)
ApplyFrom(lst, i, o) ==
    IF i > Len(lst) THEN [order |-> o, valid |-> TRUE, raised |-> FALSE]
    ELSE LET res == ApplyEntry(o, lst[i]) IN
         IF res.exc # "" THEN
             IF Caught(res.exc) THEN ApplyFrom(lst, i + 1, o)
             ELSE [order |-> o, valid |-> FALSE, raised |-> TRUE]
         ELSE IF ~res.valid THEN [order |-> res.order, valid |-> FALSE, raised |-> FALSE]
         ELSE ApplyFrom(lst, i + 1, res.order)

\* line 95: all(d in order[:5] for d in top5)
TopAllLeading(o, t5) == \A i \in 1 .. Len(t5) : In(t5[i], PySliceTo(o, TopK))

\* A caller passes one event's list and its top-5 (simulate) or no top-5 (plot_graph).
\* The top-5 are the TopK best of current_points: roster drivers in any order,
\* possibly with a driver who scored but is not in the roster.
Top5Choices ==
    {<<>>,
     [i \in 1 .. TopK |-> drivers[TopK + 1 - i]],
     SubSeq(drivers, 1, TopK - 1) \o <<AllDrivers[RosterSize + 1]>>}

Call(r, t5) ==
    /\ gen_pc \in {"idle", "done"}
    /\ gen_pc' = "loop"
    /\ scenario_list' = scenarios[r]
    /\ top5' = t5
    /\ attempts' = 0
    /\ order' = <<>>
    /\ path' = "none"
    /\ UNCHANGED <<formVars, scenarios, fresh, pointsVars, simVars>>

\* lines 74-99: one pass of the retry loop; the pass counter is a local of the
\* call and is gone once the call has returned
Attempt ==
    /\ gen_pc = "loop"
    /\ attempts < RetryBudget
    /\ \E sample \in Shuffles(drivers), coin \in BOOLEAN :
         LET res == ApplyFrom(scenario_list, 1, sample)
             biased == top5 # <<>> /\ coin
             accepted == res.valid /\ (biased => TopAllLeading(res.order, top5))
         IN IF res.raised
            THEN gen_pc' = "raised" /\ attempts' = attempts + 1 /\ UNCHANGED <<order, path>>
            ELSE IF accepted
            THEN gen_pc' = "done" /\ attempts' = 0 /\ order' = res.order /\ path' = "loop"
            ELSE /\ gen_pc' = IF attempts + 1 < RetryBudget THEN "loop" ELSE "fallback"
                 /\ attempts' = attempts + 1
                 /\ UNCHANGED <<order, path>>
    /\ UNCHANGED <<formVars, scenarios, fresh, scenario_list, top5, pointsVars, simVars>>

\* lines 102-103
Top5In(t5) == SelectSeq(t5, LAMBDA d : In(d, drivers))
Other(t5in) == SelectSeq(drivers, LAMBDA d : ~In(d, t5in))

\* lines 100-109
Fallback ==
    /\ gen_pc = "fallback"
    /\ \E coin \in BOOLEAN :
         IF top5 # <<>> /\ coin
         THEN \E a \in Shuffles(Top5In(top5)) :
                \E b \in Shuffles(Other(Top5In(top5))) :
                  /\ order' = a \o PySliceTo(b, RosterSize - Len(a))
                  /\ path' = "fallback top5"
         ELSE \E sample \in Shuffles(drivers) :
                  /\ order' = sample
                  /\ path' = "fallback sample"
    /\ gen_pc' = "done"
    /\ attempts' = 0
    /\ UNCHANGED <<formVars, scenarios, fresh, scenario_list, top5, pointsVars, simVars>>

(***************************************************************************)
(* The generator on the lists update_scenarios produces.  The form of the  *)
(* first event holds rows of GenRowVals: 'Set Position' rows with a        *)
(* position below, on or past the grid, 'A Above B' rows with the second   *)
(* driver, another one than the first, typed as a number or picked as a    *)
(* label.                                                                  *)
(***************************************************************************)
GenDriver1Vals == {Num(drivers[1]), Label(drivers[2])}
GenPositionVals == {Num(0 - RosterSize), Num(0), Num(1), Num(RosterSize), Num(RosterSize + 1)}
GenDriver2Vals == {Num(drivers[1]), Num(drivers[2]), Label(drivers[2])}
GenRowVals ==
    [t : {SET_POSITION}, d1 : GenDriver1Vals, s : GenPositionVals]
        \cup {row \in [t : {A_ABOVE_B}, d1 : GenDriver1Vals, s : GenDriver2Vals] :
                    DriverNum(row.d1).v # DriverNum(row.s).v}

GenInit ==
    /\ \E rows \in [RowIdx -> GenRowVals \cup {BlankRow}] :
         /\ \A j \in RowIdx : (j > 0 /\ rows[j] # BlankRow) => rows[j - 1] # BlankRow
         /\ type_vars = [r \in Events |-> [j \in RowIdx |-> IF r = 0 THEN rows[j].t ELSE ""]]
         /\ driver1_vars = [r \in Events |-> [j \in RowIdx |-> IF r = 0 THEN rows[j].d1 ELSE Empty]]
         /\ second_vars = [r \in Events |-> [j \in RowIdx |-> IF r = 0 THEN rows[j].s ELSE Empty]]
    /\ scenarios = [r \in Events |-> RowsFrom(r, 0, <<>>)]
    /\ fresh = TRUE
    /\ GenIdle
    /\ PointsIdle
    /\ SimIdle

GenNext ==
    \/ \E r \in Events, t5 \in Top5Choices : Call(r, t5)
    \/ Attempt
    \/ Fallback

SpecGen == GenInit /\ [][GenNext]_vars

\* The call runs to its end once started: every pass of the loop and the
\* fallback are taken when control reaches them.  Nothing obliges a caller to
\* call again.
SpecGenLive == SpecGen /\ WF_vars(Attempt) /\ WF_vars(Fallback)

(***************************************************************************)
(* Standings: Total_points.py and Python Scripts/Total_points.py.          *)
(* A season of NumWeeks races and at most one sprint; the API answers the  *)
(* same results every time it is asked.                                    *)
(***************************************************************************)
NumWeeks == 2

Countries == {"China", "Miami"}
SessionKeys == 1 .. (NumWeeks + 1)
Session(key, country) == [key |-> key, country |-> country]

\* one entry of a session's result list
\* (position: a JSON number, or null for a driver who was not classified)
Null == [k |-> "null", v |-> 0]
Result(d, pos, pts) == [driver_number |-> d, position |-> Num(pos), points |-> pts]
NotClassified(d) == [driver_number |-> d, position |-> Null, points |-> 0]

\* result lists the API may answer: empty, a winner with a bonus point on top
\* of the points of the place, two drivers out of order, one driver listed
\* twice
ResultLists ==
    {<<>>,
     <<Result(drivers[1], 1, 3)>>,
     <<Result(drivers[2], 2, 1), Result(drivers[1], 1, 2)>>,
     <<Result(drivers[1], 1, 2), Result(drivers[1], 2, 1)>>}

\* result lists with an entry whose position is not a place: null, or zero
MalformedLists ==
    {<<>>,
     <<Result(drivers[2], 2, 1), Result(drivers[1], 1, 2)>>,
     <<NotClassified(drivers[2]), Result(drivers[1], 1, 2)>>,
     <<Result(drivers[2], 0, 1), Result(drivers[1], 1, 2)>>}

Has(m, key) == key \in DOMAIN m
Put(m, key, v) == [x \in (DOMAIN m) \cup {key} |-> IF x = key THEN v ELSE m[x]]

\* lines 26-34 (root), 46-72 (Python Scripts), for a fetch that succeeds
cached_get(url, ac) ==
    IF Has(ac, url) THEN [data |-> ac[url], cache |-> ac]
    ELSE [data |-> session_data[url], cache |-> Put(ac, url, session_data[url])]

\* list.sort(key=lambda x: int(x['position'])): stable, ascending
RECURSIVE SortFrom(_, _)
SortFrom(lst, positions) ==
    IF positions = {} THEN <<>>
    ELSE LET p == CHOOSE x \in positions : \A y \in positions : x <= y
         IN SelectSeq(lst, LAMBDA e : PyInt(e.position).v = p)
                \o SortFrom(lst, positions \ {p})
SortByPosition(lst) == SortFrom(lst, {PyInt(lst[i].position).v : i \in 1 .. Len(lst)})

\* int(x['position']) raises for some entry: the sort raises and leaves the list as it was
KeyRaises(lst) == \E i \in 1 .. Len(lst) : ~PyInt(lst[i].position).ok

\* root, lines 120-124: the cached list itself is sorted; an exception of the
\* sort is not caught
session_result(key, ac) ==
    LET got == cached_get(key, ac)
        sorted == SortByPosition(got.data)
    IN IF KeyRaises(got.data)
       THEN [results |-> got.data, cache |-> got.cache, raised |-> TRUE]
       ELSE [results |-> sorted, cache |-> Put(got.cache, key, sorted), raised |-> FALSE]

\* Python Scripts, lines 46-72: a fetch that fails returns an error payload
\* (a dict) and caches nothing
scripts_cached_get(url, ac) ==
    IF Has(ac, url) THEN [data |-> ac[url], cache |-> ac, error |-> FALSE]
    ELSE IF url \in down THEN [data |-> <<>>, cache |-> ac, error |-> TRUE]
    ELSE [data |-> session_data[url], cache |-> Put(ac, url, session_data[url]),
          error |-> FALSE]

\* Python Scripts, lines 158-196: an error payload gives [] (lines 170-186);
\* for a list answer lines 191-195 catch the exception of the sort and return
\* the list unsorted
scripts_session_result(key, ac) ==
    LET got == scripts_cached_get(key, ac)
        sorted == SortByPosition(got.data)
    IN IF got.error
       THEN [results |-> <<>>, cache |-> got.cache, raised |-> FALSE]
       ELSE IF KeyRaises(got.data)
       THEN [results |-> got.data, cache |-> got.cache, raised |-> FALSE]
       ELSE [results |-> sorted, cache |-> Put(got.cache, key, sorted), raised |-> FALSE]

\* lines 140-143 (root), 219-222 and 231-234 (Python Scripts)
AddTo_Mut(dp, d, points) == Put(dp, d, points)
AddTo(dp, d, points) ==
    IF Has(dp, d) THEN Put(dp, d, dp[d] + points) ELSE Put(dp, d, points)

\* the loop over a session's results
RECURSIVE AddResults(_, _, _)
AddResults_Mut(results, i, dp) ==
    IF i >= Len(results) THEN dp
    ELSE AddResults(results, i + 1, AddTo(dp, results[i].driver_number, results[i].points))
AddResults(results, i, dp) ==
    IF i > Len(results) THEN dp
    ELSE AddResults(results, i + 1, AddTo(dp, results[i].driver_number, results[i].points))

\* root, lines 135-144
RECURSIVE add_points(_, _, _, _)
add_points(session_keys, i, dp, ac) ==
    IF i > Len(session_keys) THEN [dp |-> dp, cache |-> ac, raised |-> FALSE]
    ELSE LET res == session_result(session_keys[i].key, ac)
         IN IF res.raised THEN [dp |-> dp, cache |-> res.cache, raised |-> TRUE]
            ELSE add_points(session_keys, i + 1, AddResults(res.results, 1, dp), res.cache)

\* line 178: next((k for k, c in sprint_keys if c == country), None); 0 for None
SprintFor(country) ==
    LET hits == SelectSeq(sprint_keys, LAMBDA e : e.country = country)
    IN IF hits = <<>> THEN 0 ELSE hits[1].key

Min(a, b) == IF a < b THEN a ELSE b

\* root, lines 174-180: the loop over the first k race weeks
RECURSIVE RootWeeks(_, _, _, _)
RootWeeks(i, n, dp, ac) ==
    IF i > n THEN [dp |-> dp, cache |-> ac, raised |-> FALSE]
    ELSE LET race == add_points(<<race_keys[i]>>, 1, dp, ac)
             sprint_session == SprintFor(race_keys[i].country)
             week == IF sprint_session # 0 /\ ~race.raised
                     THEN add_points(<<Session(sprint_session, race_keys[i].country)>>, 1,
                                     race.dp, race.cache)
                     ELSE race
         IN IF week.raised THEN week
            ELSE RootWeeks(i + 1, n, week.dp, week.cache)

\* lines 171 and 181: both the mapping handed out on a hit and the mapping
\* stored on a miss are copies
HitCopies_Mut == FALSE
HitCopies == TRUE
StoreCopies_Mut == FALSE
StoreCopies == TRUE

\* lines 174-180 (root), 272-278 (Python Scripts): the sessions add_points is
\* called for in weeks i..n, in the order of the calls
RECURSIVE WeekCalls(_, _)
WeekCalls(i, n) ==
    IF i > n THEN <<>>
    ELSE LET sprint_session == SprintFor(race_keys[i].country)
         IN <<race_keys[i].key>>
                \o (IF sprint_session # 0 THEN <<sprint_session>> ELSE <<>>)
                \o WeekCalls(i + 1, n)

Returns(k, m, from, shared) ==
    /\ held' = m
    /\ ret' = m
    /\ ret_k' = k
    /\ served' = from
    /\ aliased' = IF shared THEN {k} ELSE {}

\* an exception leaves the call: nothing is returned and nothing is stored in
\* cache_points
Raises(k) ==
    /\ held' = EmptyMap
    /\ ret' = EmptyMap
    /\ ret_k' = k
    /\ served' = "raised"
    /\ aliased' = {}

\* root, lines 165-182
GetPointsRoot(k) ==
    /\ variant = "root"
    /\ IF Has(cache_points, k)
       THEN /\ Returns(k, cache_points[k], "cache_points", ~HitCopies)
            /\ processed' = <<>>
            /\ UNCHANGED <<cache_points, api_cache>>
       ELSE \E run \in {RootWeeks(1, Min(k, Len(race_keys)), EmptyMap, api_cache)} :
               /\ api_cache' = run.cache
               /\ processed' = WeekCalls(1, Min(k, Len(race_keys)))
               /\ IF run.raised
                  THEN Raises(k) /\ UNCHANGED cache_points
                  ELSE /\ cache_points' = Put(cache_points, k, run.dp)
                       /\ Returns(k, run.dp, "scratch", ~StoreCopies)
    /\ UNCHANGED <<variant, race_keys, sprint_keys, session_data, points_cache, down>>
    /\ UNCHANGED <<formVars, scenarios, fresh, genVars, simVars>>

\* Python Scripts, lines 210-211: the keys of points_cache
CacheKey(prefix, key, country, total) ==
    [prefix |-> prefix, key |-> key, country |-> country, total |-> total]

\* Python Scripts, lines 217-221: the loop over a cached session's items
RECURSIVE AddCached(_, _, _)
AddCached(cached_results, todo, dp) ==
    IF todo = {} THEN dp
    ELSE LET d == CHOOSE x \in todo : TRUE
         IN AddCached(cached_results, todo \ {d}, AddTo(dp, d, cached_results[d]))

\* Python Scripts, line 230: session_points[driver_number] = points
RECURSIVE SessionPoints(_, _, _)
SessionPoints(results, i, session_points) ==
    IF i > Len(results) THEN session_points
    ELSE SessionPoints(results, i + 1,
                       Put(session_points, results[i].driver_number, results[i].points))

\* Python Scripts, lines 207-242
RECURSIVE scripts_add_points(_, _, _, _, _, _)
scripts_add_points(session_keys, i, dp, prefix, pc, ac) ==
    IF i > Len(session_keys) THEN [dp |-> dp, points |-> pc, cache |-> ac, hit |-> FALSE]
    ELSE LET key == session_keys[i].key
             country == session_keys[i].country
             cache_key == CacheKey(prefix, key, country, FALSE)
             total_cache_key == CacheKey(prefix, key, country, TRUE)
             res == scripts_session_result(key, ac)
             dp1 == IF Has(pc, cache_key)
                    THEN AddCached(pc[cache_key], DOMAIN pc[cache_key], dp)
                    ELSE AddResults(res.results, 1, dp)
             pc1 == IF Has(pc, cache_key) THEN pc
                    ELSE Put(pc, cache_key, SessionPoints(res.results, 1, EmptyMap))
             ac1 == IF Has(pc, cache_key) THEN ac ELSE res.cache
             rest == scripts_add_points(session_keys, i + 1, dp1, prefix,
                                        Put(pc1, total_cache_key, dp1), ac1)
         IN [rest EXCEPT !.hit = rest.hit \/ Has(pc, cache_key)]

\* Python Scripts, lines 272-278
RECURSIVE ScriptsWeeks(_, _, _, _, _)
ScriptsWeeks(i, n, dp, pc, ac) ==
    IF i > n THEN [dp |-> dp, points |-> pc, cache |-> ac, hit |-> FALSE]
    ELSE LET race == scripts_add_points(<<race_keys[i]>>, 1, dp, "2025_race", pc, ac)
             sprint_session == SprintFor(race_keys[i].country)
             week == IF sprint_session # 0
                     THEN scripts_add_points(
                              <<Session(sprint_session, race_keys[i].country)>>, 1,
                              race.dp, "2025_sprint", race.points, race.cache)
                     ELSE [race EXCEPT !.hit = FALSE]
             rest == ScriptsWeeks(i + 1, n, week.dp, week.points, week.cache)
         IN [rest EXCEPT !.hit = rest.hit \/ race.hit \/ week.hit]

\* Python Scripts, lines 263-280
GetPointsScripts(k) ==
    /\ variant = "scripts"
    /\ IF Has(cache_points, k)
       THEN /\ Returns(k, cache_points[k], "cache_points", ~HitCopies)
            /\ processed' = <<>>
            /\ UNCHANGED <<cache_points, points_cache, api_cache>>
       ELSE \E run \in {ScriptsWeeks(1, Min(k, Len(race_keys)), EmptyMap,
                                      points_cache, api_cache)} :
               /\ cache_points' = Put(cache_points, k, run.dp)
               /\ points_cache' = run.points
               /\ api_cache' = run.cache
               /\ processed' = WeekCalls(1, Min(k, Len(race_keys)))
               /\ Returns(k, run.dp, IF run.hit THEN "points_cache" ELSE "scratch",
                          ~StoreCopies)
    /\ UNCHANGED <<variant, race_keys, sprint_keys, session_data, down>>
    /\ UNCHANGED <<formVars, scenarios, fresh, genVars, simVars>>

\* The caller changes the first driver's entry of the mapping it was handed
\* (plot_graph holds it as points); a cache entry that is the same object
\* changes with it.
Mutate ==
    /\ ret_k # NoCall
    /\ served # "raised"
    /\ held = ret
    /\ held' = AddTo(held, drivers[1], 1)
    /\ cache_points' = [k \in DOMAIN cache_points |->
                           IF k \in aliased THEN AddTo(held, drivers[1], 1) ELSE cache_points[k]]
    /\ UNCHANGED <<variant, race_keys, sprint_keys, session_data, api_cache,
                   points_cache, aliased, ret_k, ret, served, processed, down>>
    /\ UNCHANGED <<formVars, scenarios, fresh, genVars, simVars>>

\* a season's sessions and results; nothing fetched or computed yet
PointsInit(v, lists) ==
    /\ variant = v
    /\ \E c \in [1 .. NumWeeks -> Countries] :
          race_keys = [i \in 1 .. NumWeeks |-> Session(i, c[i])]
    /\ sprint_keys \in {<<>>} \cup {<<Session(NumWeeks + 1, c)>> : c \in Countries}
    /\ session_data \in [SessionKeys -> lists]
    /\ sprint_keys = <<>> => session_data[NumWeeks + 1] = <<>>
    /\ api_cache = EmptyMap
    /\ cache_points = EmptyMap
    /\ points_cache = EmptyMap
    /\ held = EmptyMap
    /\ aliased = {}
    /\ ret_k = NoCall
    /\ ret = EmptyMap
    /\ served = "none"
    /\ processed = <<>>
    /\ down = {}
    /\ FormInit
    /\ GenIdle
    /\ SimIdle

\* The API stops delivering the results of a session, and recovers.
ApiFails(key) ==
    /\ down = {}
    /\ down' = {key}
    /\ UNCHANGED <<variant, race_keys, sprint_keys, session_data, api_cache, cache_points,
                   points_cache, held, aliased, ret_k, ret, served, processed>>
    /\ UNCHANGED <<formVars, scenarios, fresh, genVars, simVars>>

ApiRecovers ==
    /\ down # {}
    /\ down' = {}
    /\ UNCHANGED <<variant, race_keys, sprint_keys, session_data, api_cache, cache_points,
                   points_cache, held, aliased, ret_k, ret, served, processed>>
    /\ UNCHANGED <<formVars, scenarios, fresh, genVars, simVars>>

Weeks == 0 .. (NumWeeks + 1)

RootInit == PointsInit("root", ResultLists)
RootNext ==
    \/ \E k \in Weeks : GetPointsRoot(k)
    \/ Mutate
SpecPoints == RootInit /\ [][RootNext]_vars

ScriptsInit == PointsInit("scripts", ResultLists)
ScriptsNext ==
    \/ \E k \in Weeks : GetPointsScripts(k)
    \/ Mutate
SpecScripts == ScriptsInit /\ [][ScriptsNext]_vars

\* the same with result lists that hold a malformed position
MalformedInit == PointsInit("root", MalformedLists)
SpecMalformed == MalformedInit /\ [][RootNext]_vars
ScriptsMalformedInit == PointsInit("scripts", MalformedLists)
SpecScriptsMalformed == ScriptsMalformedInit /\ [][ScriptsNext]_vars

\* Python Scripts with an API that fails for a while: result lists in which
\* every driver appears once
CleanLists ==
    {<<>>,
     <<Result(drivers[1], 1, 3)>>,
     <<Result(drivers[2], 2, 1), Result(drivers[1], 1, 2)>>}
FetchInit == PointsInit("scripts", CleanLists)
FetchNext ==
    \/ \E k \in Weeks : GetPointsScripts(k)
    \/ \E key \in SessionKeys : ApiFails(key)
    \/ ApiRecovers
SpecFetch == FetchInit /\ [][FetchNext]_vars

\* Python Scripts, lines 198-205: print_session_results fetches every session
RECURSIVE FetchAll(_, _, _)
FetchAll(session_keys, i, ac) ==
    IF i > Len(session_keys) THEN ac
    ELSE FetchAll(session_keys, i + 1, scripts_session_result(session_keys[i].key, ac).cache)

\* Python Scripts, lines 433-473: main() prints the results of every session,
\* then adds all sprints and after them all races into one mapping.  (The
\* request of line 456 asks for 20 positions and has a URL of its own.)
Main ==
    /\ variant = "scripts"
    /\ \E run \in {LET fetched == FetchAll(sprint_keys \o race_keys, 1, api_cache)
                       sprints == scripts_add_points(sprint_keys, 1, EmptyMap, "2025_sprint",
                                                     points_cache, fetched)
                   IN scripts_add_points(race_keys, 1, sprints.dp, "2025_race",
                                         sprints.points, sprints.cache)} :
          /\ points_cache' = run.points
          /\ api_cache' = run.cache
    /\ UNCHANGED <<variant, race_keys, sprint_keys, session_data, cache_points,
                   held, aliased, ret_k, ret, served, processed, down>>
    /\ UNCHANGED <<formVars, scenarios, fresh, genVars, simVars>>

\* Python Scripts: main() and get_points_after_race_week in any order
TotalsInit == PointsInit("scripts", CleanLists)
TotalsNext ==
    \/ \E k \in Weeks : GetPointsScripts(k)
    \/ Main
SpecTotals == TotalsInit /\ [][TotalsNext]_vars

\* the standings after k race weeks computed with every cache empty
FromScratch(k) ==
    IF variant = "scripts"
    THEN ScriptsWeeks(1, Min(k, Len(race_keys)), EmptyMap, EmptyMap, EmptyMap).dp
    ELSE RootWeeks(1, Min(k, Len(race_keys)), EmptyMap, EmptyMap).dp

(***************************************************************************)
(* Reading an accepted entry as a constraint.                              *)
(***************************************************************************)
IsFixed(e) == e.t = SET_POSITION
IsAbove(e) == e.t = A_ABOVE_B
DriverA(e) == DriverNum(e.d1).v
DriverB(e) == DriverNum(e.s).v
Position(e) == PyInt(e.s).v

Complete(row) == row.t # "" /\ Truthy(row.d1) /\ Truthy(row.s)
Parses(row) ==
    /\ DriverNum(row.d1).ok
    /\ row.t = SET_POSITION => PyInt(row.s).ok
    /\ row.t = A_ABOVE_B => DriverNum(row.s).ok
Good(row) == Complete(row) /\ Parses(row)

\* C5: no event's accepted list holds an 'A Above B' entry together with its
\* direct reverse: once a-above-b is accepted, a later b-above-a is dropped.
C5_NoDirectReverse ==
    \A r \in Events : \A i, j \in 1 .. Len(scenarios[r]) :
        (i # j /\ IsAbove(scenarios[r][i]) /\ IsAbove(scenarios[r][j]))
            => ~(/\ DriverA(scenarios[r][i]) = DriverB(scenarios[r][j])
                 /\ DriverB(scenarios[r][i]) = DriverA(scenarios[r][j]))

C5_Witness ==
    \E r \in Events :
        /\ fresh
        /\ IsAbove(RowAt(r, 0)) /\ Good(RowAt(r, 0))
        /\ IsAbove(RowAt(r, 1)) /\ Good(RowAt(r, 1))
        /\ DriverA(RowAt(r, 0)) # DriverB(RowAt(r, 0))
        /\ DriverA(RowAt(r, 0)) = DriverB(RowAt(r, 1))
        /\ DriverB(RowAt(r, 0)) = DriverA(RowAt(r, 1))
        /\ RowAt(r, 0).s.k # RowAt(r, 1).d1.k
        /\ scenarios[r] = <<RowAt(r, 0)>>

\* C6: no event's accepted list holds two 'Set Position' entries that claim
\* the same position or pin the same driver; and when rows 0 and 1 of an event
\* put two different drivers on position 1, the first is accepted and stays
\* the only accepted entry on position 1.
C6_FixedDistinct ==
    /\ \A r \in Events : \A i, j \in 1 .. Len(scenarios[r]) :
          (i # j /\ IsFixed(scenarios[r][i]) /\ IsFixed(scenarios[r][j]))
              => /\ Position(scenarios[r][i]) # Position(scenarios[r][j])
                 /\ DriverA(scenarios[r][i]) # DriverA(scenarios[r][j])
    /\ fresh =>
          \A r \in Events :
              (/\ IsFixed(RowAt(r, 0)) /\ Good(RowAt(r, 0)) /\ Position(RowAt(r, 0)) = 1
               /\ IsFixed(RowAt(r, 1)) /\ Good(RowAt(r, 1)) /\ Position(RowAt(r, 1)) = 1
               /\ DriverA(RowAt(r, 0)) # DriverA(RowAt(r, 1)))
                  => /\ Len(scenarios[r]) >= 1
                     /\ scenarios[r][1] = RowAt(r, 0)
                     /\ \A i \in 2 .. Len(scenarios[r]) :
                            ~(IsFixed(scenarios[r][i]) /\ Position(scenarios[r][i]) = 1)

C6_Witness ==
    \E r \in Events :
        /\ fresh
        /\ IsFixed(RowAt(r, 0)) /\ Good(RowAt(r, 0)) /\ Position(RowAt(r, 0)) = 1
        /\ IsFixed(RowAt(r, 1)) /\ Good(RowAt(r, 1)) /\ Position(RowAt(r, 1)) = 1
        /\ DriverA(RowAt(r, 0)) # DriverA(RowAt(r, 1))
        /\ scenarios[r] = <<RowAt(r, 0)>>

\* C7 (as claimed): an 'A Above B' entry (a above b) is never accepted after a
\* 'Set Position' entry that puts the losing driver b on position 1.
C7_LoserOnFirstRejected ==
    \A r \in Events : \A i, j \in 1 .. Len(scenarios[r]) :
        (i < j /\ IsFixed(scenarios[r][i]) /\ IsAbove(scenarios[r][j]))
            => ~(/\ Position(scenarios[r][i]) = 1
                 /\ DriverA(scenarios[r][i]) = DriverB(scenarios[r][j])
                 /\ DriverA(scenarios[r][j]) # DriverB(scenarios[r][j]))

\* C8 (as claimed): a 'Set Position' entry that puts a on position 1 is never
\* accepted after an 'A Above B' entry requiring another driver x above a.
C8_FirstBelowRejected ==
    \A r \in Events : \A i, j \in 1 .. Len(scenarios[r]) :
        (i < j /\ IsAbove(scenarios[r][i]) /\ IsFixed(scenarios[r][j]))
            => ~(/\ Position(scenarios[r][j]) = 1
                 /\ DriverB(scenarios[r][i]) = DriverA(scenarios[r][j])
                 /\ DriverA(scenarios[r][i]) # DriverA(scenarios[r][j]))

\* C9: a row that is incomplete, cannot be parsed or conflicts is dropped and
\* nothing else happens: every accepted entry is a complete, parsable row of
\* its own event's form, and in every event the first good row is accepted
\* whatever rows were dropped before it or in other events.
GoodRows(r) == {j \in RowIdx : Good(RowAt(r, j))}

C9_DroppedSilently ==
    /\ \A r \in Events : \A i \in 1 .. Len(scenarios[r]) : Good(scenarios[r][i])
    /\ fresh =>
          \A r \in Events :
              /\ Len(scenarios[r]) <= Cardinality(GoodRows(r))
              /\ \A i \in 1 .. Len(scenarios[r]) :
                     \E j \in GoodRows(r) : scenarios[r][i] = RowAt(r, j)
              /\ \A j \in GoodRows(r) :
                     (\A jj \in 0 .. (j - 1) : jj \notin GoodRows(r))
                         => /\ Len(scenarios[r]) >= 1
                            /\ scenarios[r][1] = RowAt(r, j)

C9_Witness ==
    \E r \in Events :
        /\ fresh
        /\ Complete(RowAt(r, 0)) /\ ~Parses(RowAt(r, 0))
        /\ Good(RowAt(r, 1))
        /\ scenarios[r] = <<RowAt(r, 1)>>

(***************************************************************************)
(* Claims about the generator.                                             *)
(***************************************************************************)
Returned == gen_pc = "done"
FromLoop == gen_pc = "done" /\ path = "loop"

\* C1: every returned order is a permutation of the roster: as long as the
\* roster, each roster driver exactly once, nobody else; from the retry loop
\* and from both fallback branches.
C1_Permutation ==
    Returned =>
        /\ Len(order) = Len(drivers)
        /\ \A i \in 1 .. Len(order) : In(order[i], drivers)
        /\ \A i, j \in 1 .. Len(order) : i # j => order[i] # order[j]

C1_Witness ==
    /\ Returned
    /\ path = "fallback top5"
    /\ \E i \in 1 .. Len(top5) : ~In(top5[i], drivers)
    /\ \E i \in 1 .. Len(scenario_list) : IsFixed(scenario_list[i])

\* C2 (as claimed, for roster drivers and positions on the grid): an order
\* returned from the retry loop has every accepted 'Set Position' driver on
\* its position.
C2_FixedPositionHolds ==
    FromLoop =>
        \A i \in 1 .. Len(scenario_list) :
            (/\ IsFixed(scenario_list[i])
             /\ In(DriverA(scenario_list[i]), drivers)
             /\ Position(scenario_list[i]) \in 1 .. RosterSize)
                => order[Position(scenario_list[i])] = DriverA(scenario_list[i])

\* C3 (as claimed, for second drivers typed as plain numbers and fixed
\* positions on the grid): an order returned from the retry loop has a ahead
\* of b for every accepted 'A Above B' entry, wherever the entry stands among
\* the 'Set Position' ones.
AllFixedOnGrid ==
    \A i \in 1 .. Len(scenario_list) :
        IsFixed(scenario_list[i]) => Position(scenario_list[i]) \in 1 .. RosterSize

C3_AboveHoldsAfterSwaps ==
    (FromLoop /\ AllFixedOnGrid) =>
        \A i \in 1 .. Len(scenario_list) :
            (/\ IsAbove(scenario_list[i])
             /\ scenario_list[i].s.k = "num"
             /\ In(DriverA(scenario_list[i]), drivers)
             /\ In(DriverB(scenario_list[i]), drivers)
             /\ DriverA(scenario_list[i]) # DriverB(scenario_list[i]))
                => IndexOf(order, DriverA(scenario_list[i]))
                       < IndexOf(order, DriverB(scenario_list[i]))

\* C4: a call never raises and always ends with an order: the retry loop
\* draws at most RetryBudget permutations, the fallback follows the last
\* failed attempt, and every call that has started returns an order of the
\* roster's length, whatever the constraint list holds.
WithinBudget ==
    /\ gen_pc # "raised"
    /\ attempts <= RetryBudget
    /\ gen_pc = "loop" => attempts < RetryBudget
    /\ gen_pc = "fallback" => attempts = RetryBudget
    /\ Returned => Len(order) = RosterSize /\ path # "none"

C4_Terminates ==
    /\ []WithinBudget
    /\ (gen_pc \in {"loop", "fallback"}) ~> Returned

\* the fallback is reached with a list holding a position that raises IndexError
C4_Witness ==
    /\ Returned
    /\ path = "fallback sample"
    /\ \E i \in 1 .. Len(scenario_list) :
         /\ IsFixed(scenario_list[i])
         /\ ~PyIndex(drivers, Position(scenario_list[i]) - 1).ok

(***************************************************************************)
(* Claims about the standings.                                             *)
(***************************************************************************)
\* C10 (as claimed): whatever calls and caller's changes came before, the
\* mapping get_points_after_race_week(k) returns, from cache_points, from the
\* per-session points_cache or computed anew, is the mapping a computation of
\* k from scratch over the same results yields, also when a driver is listed
\* more than once in a session.
C10_CachedEqualsScratch ==
    ret_k # NoCall => ret = FromScratch(ret_k)

\* a competitor absent from a mapping counts as 0
PointsOf(m, d) == IF Has(m, d) THEN m[d] ELSE 0
\* C11: the standings are monotone in the number of race weeks: of any two
\* standings computed so far, the one for more weeks gives every driver at
\* least as many points (an absent driver counts as 0), the standings for
\* k = 0 are empty, and the mapping a call returns is the one kept for its k.
C11_Monotone ==
    /\ \A k1, k2 \in DOMAIN cache_points :
          k1 < k2 =>
              \A d \in (DOMAIN cache_points[k1]) \cup (DOMAIN cache_points[k2]) :
                  PointsOf(cache_points[k2], d) >= PointsOf(cache_points[k1], d)
    /\ Has(cache_points, 0) => cache_points[0] = EmptyMap
    /\ (ret_k # NoCall /\ Has(cache_points, ret_k)) => ret = cache_points[ret_k]

C11_Witness ==
    /\ Has(cache_points, 0)
    /\ \E k1, k2 \in DOMAIN cache_points :
          /\ k1 < k2
          /\ \E d \in DOMAIN cache_points[k1] :
                /\ cache_points[k1][d] > 0
                /\ PointsOf(cache_points[k2], d) > cache_points[k1][d]
    /\ ret_k = 0

\* gui_simulator.py, lines 20-21: the points of a finishing position, the
\* scoring places followed by zeros up to the size of the roster
race_points == <<2, 1>> \o [i \in 1 .. (RosterSize - 2) |-> 0]
sprint_points == <<1>> \o [i \in 1 .. (RosterSize - 1) |-> 0]
TableAt(table, pos) == IF pos \in 1 .. Len(table) THEN table[pos] ELSE 0

\* the sessions the loop of get_points_after_race_week(k) reads in week i, and
\* the result entries <<week, session, index>> it reads in the first k weeks
WeekSessions(i) ==
    {race_keys[i].key} \cup
        (IF SprintFor(race_keys[i].country) # 0
         THEN {SprintFor(race_keys[i].country)} ELSE {})
Entries(k) ==
    UNION {UNION {{<<i, key, j>> : j \in 1 .. Len(session_data[key])} :
                     key \in WeekSessions(i)} :
              i \in 1 .. Min(k, Len(race_keys))}
EntryOf(e) == session_data[e[2]][e[3]]
IsRace(key) == \E i \in 1 .. Len(race_keys) : race_keys[i].key = key

RECURSIVE SumOver(_, _)
SumOver(es, val) ==
    IF es = {} THEN 0
    ELSE LET e == CHOOSE x \in es : TRUE IN val[e] + SumOver(es \ {e}, val)

EntriesOf(k, d) == {e \in Entries(k) : EntryOf(e).driver_number = d}
ReportedPoints(k) == [e \in Entries(k) |-> EntryOf(e).points]
TablePoints(k) ==
    [e \in Entries(k) |->
        TableAt(IF IsRace(e[2]) THEN race_points ELSE sprint_points,
                PyInt(EntryOf(e).position).v)]

SessionsRead(k) == UNION {WeekSessions(i) : i \in 1 .. Min(k, Len(race_keys))}
EntriesOnce(k) ==
    UNION {{<<key, j>> : j \in 1 .. Len(session_data[key])} : key \in SessionsRead(k)}
PointsOnce(k) == [e \in EntriesOnce(k) |-> session_data[e[1]][e[2]].points]

\* C13 (as claimed): the standings for k count every race of the first k
\* weeks once and every sprint at most once, also when races share a country
\* name: every driver's total is the sum of the points of the sessions read,
\* each session taken once.
C13_EachSessionOnce ==
    (ret_k # NoCall) =>
        \A d \in DOMAIN ret :
            ret[d] = SumOver({e \in EntriesOnce(ret_k) :
                                 session_data[e[1]][e[2]].driver_number = d},
                             PointsOnce(ret_k))

\* C14 (as claimed): a call that computes the standings for k while the
\* standings for k - 1 are cached passes only the sessions of week k to
\* add_points, none of the earlier weeks.
C14_OnlyLastWeekProcessed ==
    (ret_k >= 1 /\ served = "scratch" /\ Has(cache_points, ret_k - 1)) =>
        processed = WeekCalls(ret_k, Min(ret_k, Len(race_keys)))

\* a position is well formed when it is a whole number, positive, and no
\* other entry of the session has the same
WellFormed(e) ==
    /\ PyInt(EntryOf(e).position).ok
    /\ PyInt(EntryOf(e).position).v > 0
    /\ \A j \in 1 .. Len(session_data[e[2]]) :
          j # e[3] => session_data[e[2]][j].position # EntryOf(e).position

\* C15 (as claimed): an entry with a malformed position is not fatal and
\* contributes nothing: every call returns, and gives every driver the sum of
\* the points of the entries read whose position is well formed.
C15_MalformedSkipped ==
    (ret_k # NoCall) =>
        /\ served # "raised"
        /\ \A d \in SetOf(drivers) :
              PointsOf(ret, d) =
                  SumOver({e \in EntriesOf(ret_k, d) : WellFormed(e)}, ReportedPoints(ret_k))

(***************************************************************************)
(* simulate() and plot_graph() of gui_simulator.py.  The window runs one   *)
(* handler at a time: the form is edited only between two runs.  The       *)
(* source runs 1000 (simulate) and 100 (plot_graph) trials over 7 races    *)
(* and 3 sprints with 8 scoring sprint places; the model scales these.     *)
(* A run is: the handler's start, then per trial BeginTrial, per event a   *)
(* call of the generator (CallGen, Attempt, Fallback) and TakeOrder, then  *)
(* EndTrial, and Finish after the last trial.                              *)
(***************************************************************************)
NumTrials == 2

\* lines 17-18: the remaining races come first in 'scenarios', the sprints after
num_sprints == NumEvents \div 2
num_races == NumEvents - num_sprints

\* line 124: order[:8], the scoring places of sprint_points
SprintPlaces == Cardinality({i \in 1 .. Len(sprint_points) : sprint_points[i] > 0})

\* lines 12-15: the standings at start-up, as the dict's items in insertion
\* order: nothing scored yet; two roster drivers level on points, the higher
\* number inserted first; a driver who scored but is not in the roster ahead
\* of the first roster driver.
Item(d, p) == [d |-> d, p |-> p]
CurrentPointsChoices ==
    {<<>>,
     <<Item(drivers[2], 1), Item(drivers[1], 1)>>,
     <<Item(drivers[1], 1), Item(AllDrivers[RosterSize + 1], 2)>>}

\* current_points.get(d, 0)
Get(items, d) ==
    IF \E i \in 1 .. Len(items) : items[i].d = d
    THEN items[CHOOSE i \in 1 .. Len(items) : items[i].d = d].p
    ELSE 0

\* sorted(current_points.items(), key=lambda x: x[1], reverse=True): stable, so
\* items with equal points keep the dict's order
FirstMax(items) ==
    CHOOSE i \in 1 .. Len(items) :
        /\ \A j \in 1 .. Len(items) : items[j].p <= items[i].p
        /\ \A j \in 1 .. (i - 1) : items[j].p < items[i].p
Without(items, i) == SubSeq(items, 1, i - 1) \o SubSeq(items, i + 1, Len(items))
RECURSIVE SortedByPoints(_)
SortedByPoints(items) ==
    IF items = <<>> THEN <<>>
    ELSE <<items[FirstMax(items)]>> \o SortedByPoints(Without(items, FirstMax(items)))

\* lines 113-114, 139: the five leaders of current_points
TopOf(items) ==
    LET top == PySliceTo(SortedByPoints(items), TopK)
    IN [i \in 1 .. Len(top) |-> top[i].d]

\* lines 117, 150: sim_points = {d: current_points.get(d, 0) for d in drivers};
\* built anew from current_points in every trial, whatever the trial before left
StartTotals_Mut(before) ==
    IF before = EmptyMap THEN [d \in SetOf(drivers) |-> Get(current_points, d)] ELSE before
StartTotals(before) == [d \in SetOf(drivers) |-> Get(current_points, d)]

\* lines 120-121, 125-126: for pos, d in enumerate(order): sim_points[d] += table[pos]
AddOrder_Mut(totals, o, table, i) ==
    [d \in DOMAIN totals |->
        IF \E j \in i .. Len(o) : o[j] = d
        THEN table[CHOOSE j \in i .. Len(o) : o[j] = d]
        ELSE totals[d]]
RECURSIVE AddOrder(_, _, _, _)
AddOrder(totals, o, table, i) ==
    IF i > Len(o) THEN totals
    ELSE AddOrder([totals EXCEPT ![o[i]] = @ + table[i]], o, table, i + 1)

\* line 127: max(sim_points, key=sim_points.get): the first key of the dict, in
\* its order (the roster's), that holds the greatest total
Leader_Mut(totals) ==
    drivers[CHOOSE i \in 1 .. Len(drivers) :
                /\ \A j \in 1 .. Len(drivers) : totals[drivers[j]] <= totals[drivers[i]]
                /\ \A j \in (i + 1) .. Len(drivers) : totals[drivers[j]] < totals[drivers[i]]]
Leader(totals) ==
    drivers[CHOOSE i \in 1 .. Len(drivers) :
                /\ \A j \in 1 .. Len(drivers) : totals[drivers[j]] <= totals[drivers[i]]
                /\ \A j \in 1 .. (i - 1) : totals[drivers[j]] < totals[drivers[i]]]

\* lines 128-129: if winner in win_counts: win_counts[winner] += 1
Count_Mut(counts, w) == [d \in DOMAIN counts |-> counts[d] + 1]
Count(counts, w) == IF Has(counts, w) THEN [counts EXCEPT ![w] = @ + 1] ELSE counts

\* line 132: pct = win_counts[d] / 10, the share of the 1000 trials in percent,
\* as the pair <<numerator, denominator>>
Pct(count) == <<count * 100, NumTrials>>

\* lines 111-115: simulate() reads the form, then ranks the standings
simulate ==
    /\ sim_pc = "idle"
    /\ scenarios' = [r \in Events |-> RowsFrom(r, 0, <<>>)]
    /\ fresh' = TRUE
    /\ handler' = "simulate"
    /\ top_5' = TopOf(current_points)
    /\ win_counts' = [d \in SetOf(TopOf(current_points)) |-> 0]
    /\ trial' = 0
    /\ event' = 0
    /\ sim_points' = EmptyMap
    /\ winner' = 0
    /\ points_over_time' = <<>>
    /\ sim_pc' = "trial"
    /\ UNCHANGED <<formVars, genVars, pointsVars, current_points>>

\* lines 134-148: plot_graph() ranks the standings; it does not read the form
plot_graph ==
    /\ sim_pc = "idle"
    /\ handler' = "plot"
    /\ top_5' = TopOf(current_points)
    /\ win_counts' = EmptyMap
    /\ trial' = 0
    /\ event' = 0
    /\ sim_points' = EmptyMap
    /\ winner' = 0
    /\ points_over_time' = <<>>
    /\ sim_pc' = "trial"
    /\ UNCHANGED <<formVars, scenarios, fresh, genVars, pointsVars, current_points>>

\* lines 116-117, 149-151
BeginTrial ==
    /\ sim_pc = "trial"
    /\ trial < NumTrials
    /\ sim_points' = StartTotals(sim_points)
    /\ points_over_time' = IF handler = "plot" THEN <<StartTotals(sim_points)>> ELSE <<>>
    /\ event' = 0
    /\ sim_pc' = "event"
    /\ UNCHANGED <<formVars, scenarios, fresh, genVars, pointsVars,
                   handler, current_points, top_5, win_counts, trial, winner>>

\* lines 119, 123 (top5=top_5) and 153, 157 (no top5)
CallGen ==
    /\ sim_pc = "event"
    /\ event < NumEvents
    /\ gen_pc = "idle"
    /\ Call(event, IF handler = "simulate" THEN top_5 ELSE <<>>)

\* lines 120-121, 124-126 and 154-156, 158-160: the points of the event; only
\* plot_graph's race loop appends a snapshot
TakeOrder ==
    /\ sim_pc = "event"
    /\ gen_pc = "done"
    /\ \E after \in {IF event < num_races
                     THEN AddOrder(sim_points, order, race_points, 1)
                     ELSE AddOrder(sim_points, PySliceTo(order, SprintPlaces), sprint_points, 1)} :
          /\ sim_points' = after
          /\ points_over_time' = IF handler = "plot" /\ event < num_races
                                 THEN Append(points_over_time, after)
                                 ELSE points_over_time
    /\ event' = event + 1
    /\ gen_pc' = "idle"
    /\ scenario_list' = <<>>
    /\ top5' = <<>>
    /\ order' = <<>>
    /\ path' = "none"
    /\ UNCHANGED <<formVars, scenarios, fresh, attempts, pointsVars,
                   sim_pc, handler, current_points, top_5, win_counts, trial, winner>>

\* lines 127-129 (simulate); lines 162-166 (plot_graph), where pts[d] raises
\* KeyError for a top-5 driver who is not in the roster and the handler ends
EndTrial ==
    /\ sim_pc = "event"
    /\ event = NumEvents
    /\ gen_pc = "idle"
    /\ IF handler = "simulate"
       THEN /\ winner' = Leader(sim_points)
            /\ win_counts' = Count(win_counts, Leader(sim_points))
            /\ trial' = trial + 1
            /\ sim_pc' = "trial"
            /\ UNCHANGED handler
       ELSE IF SetOf(top_5) \subseteq SetOf(drivers)
       THEN /\ trial' = trial + 1
            /\ sim_pc' = "trial"
            /\ UNCHANGED <<winner, win_counts, handler>>
       ELSE /\ handler' = "plot raised"
            /\ sim_pc' = "idle"
            /\ UNCHANGED <<winner, win_counts, trial>>
    /\ UNCHANGED <<formVars, scenarios, fresh, genVars, pointsVars,
                   current_points, top_5, event, sim_points, points_over_time>>

\* lines 130-132 and 167-204: the results are shown
Finish ==
    /\ sim_pc = "trial"
    /\ trial = NumTrials
    /\ sim_pc' = "idle"
    /\ UNCHANGED <<formVars, scenarios, fresh, genVars, pointsVars,
                   handler, current_points, top_5, win_counts, trial, event,
                   sim_points, winner, points_over_time>>

\* What the user enters between two runs: the last roster driver set to win,
\* the second roster driver above the first.
SimRowVals ==
    {[t |-> SET_POSITION, d1 |-> Num(drivers[RosterSize]), s |-> Num(1)],
     [t |-> A_ABOVE_B, d1 |-> Num(drivers[2]), s |-> Num(drivers[1])]}

\* The window after start-up, with 'row' entered in the first row of the first
\* event and no handler run yet.
SimStart(row) ==
    /\ type_vars = [r \in Events |-> [j \in RowIdx |-> IF r = 0 /\ j = 0 THEN row.t ELSE ""]]
    /\ driver1_vars = [r \in Events |-> [j \in RowIdx |-> IF r = 0 /\ j = 0 THEN row.d1 ELSE Empty]]
    /\ second_vars = [r \in Events |-> [j \in RowIdx |-> IF r = 0 /\ j = 0 THEN row.s ELSE Empty]]
    /\ scenarios = [r \in Events |-> <<>>]
    /\ fresh = FALSE
    /\ GenIdle
    /\ PointsIdle
    /\ sim_pc = "idle"
    /\ handler = "none"
    /\ current_points \in CurrentPointsChoices
    /\ top_5 = <<>>
    /\ win_counts = EmptyMap
    /\ trial = 0
    /\ event = 0
    /\ sim_points = EmptyMap
    /\ winner = 0
    /\ points_over_time = <<>>

\* Runs of the two handlers, in any order, over a form that is left as it is.
SimInit == \E row \in SimRowVals \cup {BlankRow} : SimStart(row)

SimNext ==
    \/ simulate
    \/ plot_graph
    \/ BeginTrial
    \/ CallGen
    \/ Attempt
    \/ Fallback
    \/ TakeOrder
    \/ EndTrial
    \/ Finish

SpecSim == SimInit /\ [][SimNext]_vars

\* Runs of the two handlers with the form edited between them.
RunsInit == SimStart(BlankRow)

RunsNext ==
    \/ \E r \in Events, j \in RowIdx : EditRowFrom(r, j, SimRowVals)
    \/ SimNext

SpecRuns == RunsInit /\ [][RunsNext]_vars

RECURSIVE SumOf(_, _)
SumOf(f, S) ==
    IF S = {} THEN 0
    ELSE LET x == CHOOSE y \in S : TRUE IN f[x] + SumOf(f, S \ {x})

\* a trial of simulate() ends in this step
TrialEnds == handler = "simulate" /\ sim_pc = "event" /\ sim_pc' = "trial"

\* C16: a trial of a simulation run adds one to the win counter of its declared
\* leader when that leader is one of the tracked top five, and changes no
\* counter otherwise; so every tracked count lies between 0 and the number of
\* trials run, the counts together do not exceed it, every win probability
\* lies in [0, 1] and the reported percentages sum to at most 100%.
C16_OneCounterPerTrial ==
    /\ [][TrialEnds =>
            /\ DOMAIN win_counts' = DOMAIN win_counts
            /\ \A d \in DOMAIN win_counts :
                  win_counts'[d] = win_counts[d] + (IF d = winner' THEN 1 ELSE 0)]_vars
    /\ [](handler = "simulate" =>
            /\ \A d \in DOMAIN win_counts :
                  /\ 0 <= win_counts[d] /\ win_counts[d] <= trial
                  /\ 0 <= Pct(win_counts[d])[1]
                  /\ Pct(win_counts[d])[1] <= 100 * Pct(win_counts[d])[2]
            /\ trial <= NumTrials
            /\ SumOf(win_counts, DOMAIN win_counts) <= trial
            /\ SumOf([d \in DOMAIN win_counts |-> Pct(win_counts[d])[1]], DOMAIN win_counts)
                  <= 100 * NumTrials)

\* a finished run with one trial won by a tracked driver and one by a driver
\* who is not tracked
C16_Witness ==
    /\ handler = "simulate"
    /\ sim_pc = "idle"
    /\ trial = NumTrials
    /\ winner # 0
    /\ ~Has(win_counts, winner)
    /\ \E d \in DOMAIN win_counts : win_counts[d] = 1

\* a trial of simulate() has declared its leader and the next has not begun
LeaderDeclared == handler = "simulate" /\ winner # 0 /\ sim_pc \in {"trial", "idle"}

\* C17: the declared leader of a trial is a roster driver whose final total is
\* at least every roster driver's total, and of the drivers level on that
\* greatest total it is the one with the lowest number (the first in the
\* sorted roster).
C17_LeaderIsFirstMaximum ==
    LeaderDeclared =>
        /\ winner \in SetOf(drivers)
        /\ \A d \in SetOf(drivers) :
              /\ sim_points[d] <= sim_points[winner]
              /\ sim_points[d] = sim_points[winner] => winner <= d

\* a trial that ended with two drivers level on the greatest total
C17_Witness ==
    /\ LeaderDeclared
    /\ \E d \in SetOf(drivers) : d # winner /\ sim_points[d] = sim_points[winner]

\* a trial has built its totals and no event has been run yet
TrialBegun == sim_pc = "event" /\ event = 0 /\ gen_pc = "idle"

\* the standings restricted to the roster, 0 for a roster driver without points
IsStanding(totals) ==
    /\ DOMAIN totals = SetOf(drivers)
    /\ \A d \in SetOf(drivers) :
          \/ \E i \in 1 .. Len(current_points) :
                current_points[i].d = d /\ totals[d] = current_points[i].p
          \/ /\ \A i \in 1 .. Len(current_points) : current_points[i].d # d
             /\ totals[d] = 0

\* C18: every trial of simulate() and of plot_graph() starts from the current
\* standings restricted to the roster (0 for a roster driver without points),
\* whatever the trials before it did, and no step of any run changes
\* current_points.
C18_TrialsShareNothing ==
    /\ [](TrialBegun => IsStanding(sim_points))
    /\ []((TrialBegun /\ handler = "plot") => IsStanding(points_over_time[1]))
    /\ [][current_points' = current_points]_vars

\* a later trial of plot_graph begins, with standings in which one roster
\* driver has points and another has none
C18_Witness ==
    /\ TrialBegun
    /\ handler = "plot"
    /\ trial >= 1
    /\ \E d \in SetOf(drivers) : sim_points[d] > 0
    /\ \E d \in SetOf(drivers) : \A i \in 1 .. Len(current_points) : current_points[i].d # d

\* a trial of plot_graph has run all its events
TrajectoryComplete == handler = "plot" /\ sim_pc = "event" /\ event = NumEvents /\ gen_pc = "idle"

\* C19: in plot_graph a trial's points_over_time holds the starting standings
\* and one snapshot after every remaining race and every remaining sprint, so
\* while the trial runs it has one snapshot per finished event after the first,
\* and at the end its last snapshot equals the trial's final totals.
C19_SnapshotAfterEachEvent ==
    /\ (handler = "plot" /\ sim_pc = "event" /\ gen_pc = "idle") =>
          Len(points_over_time) = 1 + event
    /\ TrajectoryComplete => points_over_time[Len(points_over_time)] = sim_points

\* the generator is at work for an event of a run
Generating == sim_pc = "event" /\ gen_pc \in {"loop", "fallback", "done"}

\* C20: every run, of simulate or of plot_graph, generates the orders of an
\* event from the constraints the form holds for that event when the run
\* starts (the form is not edited while a run is under way): what an earlier
\* run read and the form no longer says has no influence, and a first run does
\* not ignore what has been entered.
C20_RunUsesCurrentForm ==
    Generating => scenario_list = RowsFrom(event, 0, <<>>)

\* the list of the call holds 'A Above B' entries only
OnlyAbove == \A i \in 1 .. Len(scenario_list) : IsAbove(scenario_list[i])

\* C21: the generator enforces what conflicts() parsed and accepted: for a
\* list of accepted 'A Above B' entries, whose fields conflicts() reads as a
\* plain number or as a drop-down label 'number: name', an order returned from
\* the retry loop has a ahead of b for every entry.
C21_AcceptedAboveEnforced ==
    (FromLoop /\ OnlyAbove) =>
        \A i \in 1 .. Len(scenario_list) :
            (/\ In(DriverA(scenario_list[i]), drivers)
             /\ In(DriverB(scenario_list[i]), drivers)
             /\ DriverA(scenario_list[i]) # DriverB(scenario_list[i]))
                => IndexOf(order, DriverA(scenario_list[i]))
                       < IndexOf(order, DriverB(scenario_list[i]))

\* the first two rows of event r: a fixed on position 1, then a above another
\* driver b
WinnerFixedFirst(r) ==
    /\ Good(RowAt(r, 0)) /\ IsFixed(RowAt(r, 0)) /\ Position(RowAt(r, 0)) = 1
    /\ Good(RowAt(r, 1)) /\ IsAbove(RowAt(r, 1))
    /\ DriverA(RowAt(r, 1)) = DriverA(RowAt(r, 0))
    /\ DriverB(RowAt(r, 1)) # DriverA(RowAt(r, 1))

\* C22: a 'Set Position' entry makes conflicts() reject an 'A Above B' rule
\* only when the rule cannot be met: a rule a-above-b whose winner a is fixed
\* on position 1, the only entry accepted before it, is accepted.
C22_WinnerOnFirstAccepted ==
    fresh =>
        \A r \in Events :
            WinnerFixedFirst(r) =>
                /\ Len(scenarios[r]) >= 2
                /\ scenarios[r][1] = RowAt(r, 0)
                /\ scenarios[r][2] = RowAt(r, 1)

RECURSIVE SumSeq(_)
SumSeq(seq) == IF seq = <<>> THEN 0 ELSE Head(seq) + SumSeq(Tail(seq))

Total(totals) == SumOf(totals, DOMAIN totals)

\* simulate() has added the points of an event in this step
EventScored == handler = "simulate" /\ sim_pc = "event" /\ event' = event + 1

\* the events of the trial scored so far: races, sprints
RacesDone == IF event < num_races THEN event ELSE num_races
SprintsDone == event - RacesDone

\* C23: points are conserved in every trial of simulate(): each race adds
\* exactly the sum of the race table (101 in the source) to the sum of the
\* totals and each sprint exactly the sum of the sprint table (36), no total
\* ever decreases, and so the sum after the trial is the starting sum plus
\* the race sum times num_races plus the sprint sum times num_sprints.
C23_PointsConserved ==
    /\ [][EventScored =>
            /\ Total(sim_points') = Total(sim_points)
                  + (IF event < num_races THEN SumSeq(race_points) ELSE SumSeq(sprint_points))
            /\ \A d \in SetOf(drivers) : sim_points'[d] >= sim_points[d]]_vars
    /\ []((handler = "simulate" /\ sim_pc = "event") =>
            Total(sim_points) = Total(StartTotals(EmptyMap))
                + SumSeq(race_points) * RacesDone + SumSeq(sprint_points) * SprintsDone)

\* a later trial of simulate(), from standings that are not empty, has scored
\* all its races and sprints
C23_Witness ==
    /\ handler = "simulate"
    /\ sim_pc = "event"
    /\ event = NumEvents
    /\ gen_pc = "idle"
    /\ trial >= 1
    /\ Total(StartTotals(EmptyMap)) > 0
    /\ RacesDone = num_races /\ num_races >= 1
    /\ SprintsDone = num_sprints /\ num_sprints >= 1

\* the same entries, in any order
SameEntries(a, b) == Len(a) = Len(b) /\ SetOf(a) = SetOf(b)

\* C24 (Python Scripts): a fetch that fails leaves no trace in the caches:
\* whatever api_cache holds for a session is the list the API delivers for it,
\* and whatever points_cache holds for a session is the points of that list,
\* never the empty result of a failed fetch; so once the API has recovered,
\* add_points adds the session's real points.
C24_FailureNotRecorded ==
    /\ \A url \in DOMAIN api_cache : SameEntries(api_cache[url], session_data[url])
    /\ \A ck \in DOMAIN points_cache :
          ~ck.total => points_cache[ck] = SessionPoints(session_data[ck.key], 1, EmptyMap)

\* The season's order: week i holds race i and the sprint run in its country.
\* Every sprint belongs to exactly one week.
WeekOf(session) ==
    IF \E i \in 1 .. Len(race_keys) : race_keys[i].key = session.key
    THEN CHOOSE i \in 1 .. Len(race_keys) : race_keys[i].key = session.key
    ELSE CHOOSE i \in 1 .. Len(race_keys) : race_keys[i].country = session.country
OneWeekEach ==
    \A j \in 1 .. Len(sprint_keys) :
        Cardinality({i \in 1 .. Len(race_keys) :
                        race_keys[i].country = sprint_keys[j].country}) = 1
AllSessions == SetOf(race_keys) \cup SetOf(sprint_keys)

\* the points of a set of sessions, each session once
RECURSIVE PointsOfSessions(_)
PointsOfSessions(sessions) ==
    IF sessions = {} THEN EmptyMap
    ELSE LET x == CHOOSE y \in sessions : TRUE
         IN AddResults(session_data[x.key], 1, PointsOfSessions(sessions \ {x}))

\* the standings after a session: the sessions of the weeks before it and the
\* session itself, with or without the other session of its own week (the
\* sprint is run before the race; the code adds the race first)
StandingsAfter(session) ==
    LET earlier == {x \in AllSessions : WeekOf(x) < WeekOf(session)}
        sameWeek == {x \in AllSessions : WeekOf(x) = WeekOf(session)}
    IN {PointsOfSessions(earlier \cup {session}), PointsOfSessions(earlier \cup sameWeek)}

SessionOf(ck) == Session(ck.key, ck.country)
RaceTotal(i) == CacheKey("2025_race", race_keys[i].key, race_keys[i].country, TRUE)

\* C25 (Python Scripts): a '_TOTAL' checkpoint holds the standings after its
\* session, whoever wrote it last: the points of the sessions up to and
\* including that session in the season's order and of no later session; and
\* along the races the checkpoints never decrease for any driver.
C25_CheckpointIsCumulative ==
    OneWeekEach =>
        /\ \A ck \in DOMAIN points_cache :
              ck.total => points_cache[ck] \in StandingsAfter(SessionOf(ck))
        /\ \A i, j \in 1 .. Len(race_keys) :
              (i < j /\ Has(points_cache, RaceTotal(i)) /\ Has(points_cache, RaceTotal(j))) =>
                  \A d \in DOMAIN points_cache[RaceTotal(i)] :
                      PointsOf(points_cache[RaceTotal(j)], d) >= points_cache[RaceTotal(i)][d]

====
